---- MODULE Spec2Model ----
(***************************************************************************)
(* AJDC ocular-artifact correction pipeline (Scripts/Analysis): the batch  *)
(* drivers calibrate_ajdc / denoise_ajdc, process_calibration,             *)
(* process_denoising, the parameter files written by save_ajdc_parameters  *)
(* and the helpers they call.                                              *)
(*                                                                         *)
(* Python strings that the code inspects character by character (subject   *)
(* identifiers, file names, annotation labels, the band identifier, the    *)
(* operator's answers) are sequences of one-character strings.  Strings    *)
(* that are only compared for equality (conditions, channel names, error   *)
(* names) are TLA+ strings.                                                *)
(***************************************************************************)
EXTENDS Integers, Sequences, FiniteSets, TLC

(***************************************************************************)
(* Bounds of the model                                                     *)
(***************************************************************************)
\* number of analyses (executions of main.py) in one behaviour
MaxRuns == 2
\* largest number of entries of a subject directory returned by os.listdir
MaxFiles == 2

(***************************************************************************)
(* Python string helpers                                                   *)
(***************************************************************************)
DigitChars == <<"0", "1", "2", "3", "4", "5", "6", "7", "8", "9">>

IsDigitChar(c) == \E i \in 1..10 : DigitChars[i] = c

DigitValue(c) == (CHOOSE i \in 1..10 : DigitChars[i] = c) - 1

\* str(n) for a natural number n
RECURSIVE str(_)
str(n) == IF n < 10 THEN <<DigitChars[n + 1]>>
          ELSE str(n \div 10) \o <<DigitChars[(n % 10) + 1]>>

\* int(s) for a non-empty sequence of digit characters
RECURSIVE int(_)
int(s) == IF Len(s) = 1 THEN DigitValue(s[1])
          ELSE 10 * int(SubSeq(s, 1, Len(s) - 1)) + DigitValue(s[Len(s)])

\* s.startswith(p)
startswith(s, p) == Len(p) <= Len(s) /\ SubSeq(s, 1, Len(p)) = p

\* p in s  (substring test)
Contains(p, s) ==
    \E i \in 1..(Len(s) - Len(p) + 1) : SubSeq(s, i, i + Len(p) - 1) = p

\* s.index(c) as a 1-based position; 0 when c does not occur (ValueError)
IndexOf(s, c) ==
    IF \E i \in 1..Len(s) : s[i] = c
    THEN CHOOSE i \in 1..Len(s) : s[i] = c /\ \A j \in 1..(i - 1) : s[j] # c
    ELSE 0

\* the first maximal run of digits of s, <<>> when s holds no digit:
\* re.findall(r'\d+', s)[0]
FirstDigitRun(s) ==
    IF \A i \in 1..Len(s) : ~IsDigitChar(s[i]) THEN <<>>
    ELSE LET a == CHOOSE i \in 1..Len(s) :
                     IsDigitChar(s[i]) /\ \A j \in 1..(i - 1) : ~IsDigitChar(s[j])
             b == CHOOSE i \in a..Len(s) :
                     /\ \A j \in a..i : IsDigitChar(s[j])
                     /\ (i = Len(s) \/ ~IsDigitChar(s[i + 1]))
         IN SubSeq(s, a, b)

\* the elements of a sequence
Range(s) == {s[i] : i \in 1..Len(s)}

\* list.remove(x) of a list that holds x: drops its first occurrence
Remove(s, x) ==
    LET i == CHOOSE k \in 1..Len(s) : s[k] = x /\ \A j \in 1..(k - 1) : s[j] # x
    IN SubSeq(s, 1, i - 1) \o SubSeq(s, i + 1, Len(s))

\* the sequences without repetition over S of length at most n
RECURSIVE SeqsNoRep(_, _)
SeqsNoRep(S, n) ==
    IF n = 0 THEN {<<>>}
    ELSE LET shorter == SeqsNoRep(S, n - 1)
         IN shorter \cup
            UNION {{Append(q, x) : x \in S \ Range(q)} :
                       q \in {r \in shorter : Len(r) = n - 1}}

(***************************************************************************)
(* tools/utils.py                                                          *)
(***************************************************************************)
\* Python None where the code returns it in place of a number
None == -1

SubPrefix == <<"s", "u", "b", "-">>
PilotePrefix == SubPrefix \o <<"P", "i", "l", "o", "t", "e">>

\* sub_list of setup_betapark: "sub-Pilote2", then sub-S001 .. sub-S024
sub_list ==
    <<PilotePrefix \o <<"2">>>> \o
    [s \in 1..24 |->
        SubPrefix \o <<"S">> \o (IF s < 10 THEN <<"0", "0">> ELSE <<"0">>) \o str(s)]

conditions == <<"_HAND_OBSERVATION_", "_CLEAN_">>

\* a parse that does not know the pilot prefix
extract_number_NoPilote(element) ==
    LET chiffres == FirstDigitRun(element)
    IN IF chiffres # <<>> THEN int(chiffres) ELSE None

extract_number(element) ==
    LET chiffres == FirstDigitRun(element)
    IN IF startswith(element, PilotePrefix) THEN 0
       ELSE IF chiffres # <<>> THEN int(chiffres)
       ELSE None

get_channels ==
    <<"Fp1", "Fp2",
      "F7", "F3", "Fz", "F4", "F8",
      "FT9", "FC5", "FC1", "FC2", "FC6", "FT10",
      "T7", "C3", "Cz", "C4", "T8",
      "TP9", "CP5", "CP1", "CP2", "CP6", "TP10",
      "P7", "P3", "Pz", "P4", "P8",
      "O1", "Oz", "O2">>

\* the band identifier built in main.py: f"_BAND_{fmin_ajdc}_{fmax_ajdc}_"
fmin_ajdc == 1
fmax_ajdc == 80
frequencie_file ==
    <<"_", "B", "A", "N", "D", "_">> \o str(fmin_ajdc) \o <<"_">> \o str(fmax_ajdc) \o <<"_">>

\* Python slice s[a:b] with negative indices a < b <= -1 counted from the end
NegSlice(s, a, b) == SubSeq(s, Len(s) + a + 1, Len(s) + b)

(***************************************************************************)
(* The recordings on disk (inputs).  A recording is what mne.io.read_raw   *)
(* returns: ordered channel names, sampling rate, number of samples,       *)
(* annotations (onset and duration in samples, label), measurement date    *)
(* and the sample values, which are a fixed function of (seed, channel,    *)
(* sample index) evaluated on demand by Sample.                            *)
(***************************************************************************)
NonEEG == <<"ECG", "HEOG", "VEOG">>

\* a cap recorded against Fz: every montage channel but Fz, amplifier order
RawLayoutRefFz == NonEEG \o Remove(get_channels, "Fz")
\* a cap that records Fz as an ordinary channel
RawLayoutWithFz == get_channels \o NonEEG

Stim16 == <<"S", "t", "i", "m", "u", "l", "u", "s", "/", "S", " ", "1", "6">>
Stim1  == <<"S", "t", "i", "m", "u", "l", "u", "s", "/", "S", " ", " ", "1">>
Marker16 == <<" ", "1", "6">>

Annot(onset_s, sfreq, label) ==
    [onset |-> onset_s * sfreq, duration |-> 1, description |-> label]

\* 30.3 s at 200 Hz, one ' 16' marker at 2 s
RecCalibration ==
    [ch_names |-> RawLayoutRefFz, sfreq |-> 200, n_times |-> 6060, first_samp |-> 0,
     annotations |-> <<Annot(1, 200, Stim1), Annot(2, 200, Stim16)>>,
     meas_date |-> 1, seed |-> 0, proc |-> <<>>]
\* 40 s at 250 Hz, two ' 16' markers (2 s and 10 s), Fz recorded
RecTwoMarkers ==
    [ch_names |-> RawLayoutWithFz, sfreq |-> 250, n_times |-> 10000, first_samp |-> 0,
     annotations |-> <<Annot(2, 250, Stim16), Annot(10, 250, Stim16)>>,
     meas_date |-> 2, seed |-> 1, proc |-> <<>>]
\* 10.3 s at 200 Hz, no ' 16' marker
RecNoMarker ==
    [ch_names |-> RawLayoutRefFz, sfreq |-> 200, n_times |-> 2060, first_samp |-> 0,
     annotations |-> <<Annot(1, 200, Stim1)>>,
     meas_date |-> 3, seed |-> 1, proc |-> <<>>]
\* 10.5 s at 250 Hz, a ' 16' marker too late for a 20 s window
RecLateMarker ==
    [ch_names |-> RawLayoutRefFz, sfreq |-> 250, n_times |-> 2625, first_samp |-> 0,
     annotations |-> <<Annot(3, 250, Stim16)>>,
     meas_date |-> 4, seed |-> 0, proc |-> <<>>]
\* 0.3 s at 200 Hz: shorter than one epoch
RecShort ==
    [ch_names |-> RawLayoutRefFz, sfreq |-> 200, n_times |-> 60, first_samp |-> 0,
     annotations |-> <<>>,
     meas_date |-> 5, seed |-> 0, proc |-> <<>>]

\* position of a channel name in the montage list, 0 for a non-montage channel
ChannelNumber(ch) == IndexOf(get_channels, ch)

\* the value of channel number c (1-based row) of signal sig at sample t
\* (0-based, relative to the signal's first sample)
Sample(sig, c, t) ==
    ((((sig.seed + 2) * (ChannelNumber(sig.ch_names[c]) + 3 * (sig.first_samp + t)))
        + Len(sig.proc)) % 11) - 5

\* file names found in a subject directory
File21vhdr == <<"r", "u", "n", "2", "-", "1", ".", "v", "h", "d", "r">>
File31vhdr == <<"r", "u", "n", "3", "-", "1", ".", "v", "h", "d", "r">>
File21eeg  == <<"r", "u", "n", "2", "-", "1", ".", "e", "e", "g">>
FileNames == {File21vhdr, File31vhdr, File21eeg}

\* the entries a subject directory may hold: a file name and the recordings
\* mne.io.read_raw may give for it.  The calibration recording is one fixed
\* recording; the recording of another run is any of three.
DirEntries ==
    { [name |-> File21vhdr, raw |-> {RecCalibration}],
      [name |-> File21vhdr, raw |-> {RecTwoMarkers}],
      [name |-> File21vhdr, raw |-> {RecNoMarker}],
      [name |-> File31vhdr, raw |-> {RecNoMarker, RecLateMarker, RecShort}],
      [name |-> File21eeg, raw |-> {RecShort}] }

\* the directories: at most MaxFiles entries with distinct names, in the
\* order os.listdir returns them
Directories ==
    {d \in SeqsNoRep(DirEntries, MaxFiles) :
        \A i, j \in 1..Len(d) : i # j => d[i].name # d[j].name}

(***************************************************************************)
(* Results of calls that may raise: [error |-> "" or the exception's name,  *)
(* val |-> the value when no exception was raised].                        *)
(***************************************************************************)
Ok(v) == [error |-> "", val |-> v]
Raise(e, v) == [error |-> e, val |-> v]

(***************************************************************************)
(* tools/preprocessing.py (with the mne calls it makes)                    *)
(***************************************************************************)
DroppedChannels(subject) ==
    {"ECG", "ECG2", "HEOG", "VEOG", "EMG", "ACC_X", "ACC_Y", "ACC_Z"}
    \cup (IF subject = 6 \/ subject = 19 THEN {"TP9"} ELSE {})
    \cup (IF subject \in {12, 13, 14, 16, 19} THEN {"FT9"} ELSE {})

\* add_reference_channels raises when the channel exists already;
\* reorder_channels raises when a listed channel is missing and keeps
\* exactly the listed channels, in the listed order
preparing_data_BetaPark(signal, subject, average_reference) ==
    LET channels == IF average_reference THEN get_channels
                    ELSE Remove(get_channels, "Fz")
        with_ref == IF average_reference
                    THEN [signal EXCEPT !.ch_names = @ \o <<"Fz">>,
                                        !.proc = Append(@, "add_reference_channels")]
                    ELSE signal
        IsKept(ch) == ch \notin DroppedChannels(subject)
    IN IF average_reference /\ "Fz" \in Range(signal.ch_names)
       THEN Raise("ValueError", signal)
       ELSE IF \E ch \in Range(channels) : ch \notin Range(with_ref.ch_names)
       THEN Raise("ValueError", with_ref)
       ELSE Ok([with_ref EXCEPT !.ch_names = SelectSeq(channels, IsKept)])

\* re-referencing and filtering change the sample values only; the steps
\* applied are recorded in proc, on which Sample depends
preprocessing(signal, notch, high_pass_filter, average_reference) ==
    [signal EXCEPT !.proc =
        @ \o (IF average_reference THEN <<"set_eeg_reference">> ELSE <<>>)
          \o (IF notch THEN <<"notch_filter">> ELSE <<>>)
          \o <<"filter l_freq=" \o high_pass_filter, "set_montage">>]

\* Raw.crop(tmin, tmax), times in samples: both bounds are included
crop(signal, tmin, tmax) ==
    IF tmin < 0 \/ tmax > signal.n_times - 1 \/ tmin > tmax
    THEN Raise("ValueError", signal)
    ELSE LET Inside(a) == a.onset >= signal.first_samp + tmin
                          /\ a.onset <= signal.first_samp + tmax
         IN Ok([signal EXCEPT !.first_samp = @ + tmin,
                              !.n_times = tmax - tmin + 1,
                              !.annotations = SelectSeq(@, Inside)])

\* seconds added to the marker onset, and length of the calibration window
CropDelay == 5
CropLength == 20

\* the annotations of the signal whose label contains ' 16', in order
Markers16(signal) ==
    LET Is16(a) == Contains(Marker16, a.description)
    IN SelectSeq(signal.annotations, Is16)

\* a crop that takes the first ' 16' annotation
crop_calibration_signal_BetaPark_FirstMarker(signal, condition, clean) ==
    IF condition = "_HAND_OBSERVATION_"
    THEN LET m == Markers16(signal)
         IN IF m = <<>> THEN Raise("UnboundLocalError", signal)
            ELSE LET tmin == (m[1].onset - signal.first_samp)
                                + CropDelay * signal.sfreq
                     tmax == tmin + CropLength * signal.sfreq
                 IN crop(signal, tmin, tmax)
    ELSE IF condition = "_CLEAN_"
    THEN crop(signal, clean[1] * signal.sfreq, clean[2] * signal.sfreq)
    ELSE Ok(signal)

\* clean = <<tmin, tmax>> in seconds: the operator's two answers (_CLEAN_)
crop_calibration_signal_BetaPark(signal, condition, clean) ==
    IF condition = "_HAND_OBSERVATION_"
    THEN LET m == Markers16(signal)
         IN IF m = <<>> THEN Raise("UnboundLocalError", signal)
            ELSE LET tmin == (m[Len(m)].onset - signal.first_samp)
                                + CropDelay * signal.sfreq
                     tmax == tmin + CropLength * signal.sfreq
                 IN crop(signal, tmin, tmax)
    ELSE IF condition = "_CLEAN_"
    THEN crop(signal, clean[1] * signal.sfreq, clean[2] * signal.sfreq)
    ELSE Ok(signal)

\* the operator's answers to "Begin/End of clean signal", in seconds
CleanBounds == {<<0, 10>>, <<8, 4>>}

(***************************************************************************)
(* mne.make_fixed_length_epochs(signal, duration=0.5): events every        *)
(* sfreq/2 samples from sample 0 while a whole epoch fits; each epoch      *)
(* covers tmin = 0 .. tmax = duration - 1/sfreq.  An epoch is the view     *)
(* [signal, start, n] of n samples of the signal from sample start.        *)
(* (The model's sampling rates are even, so sfreq/2 is a whole number.)    *)
(***************************************************************************)
EpochsPerSecond == 2

EpochLength(signal) == signal.sfreq \div EpochsPerSecond

make_fixed_length_epochs(signal) ==
    LET n == EpochLength(signal)
    IN [k \in 1..(signal.n_times \div n) |->
           [signal |-> signal, start |-> (k - 1) * n, n |-> n]]

\* signal.get_data()[np.newaxis, ...]: the whole signal as one array
get_data(signal) == [signal |-> signal, start |-> 0, n |-> signal.n_times]

\* number of rows (channels) of an array view
Rows(X) == Len(X.signal.ch_names)

\* value of row c at column t (0-based) of an array view
ArrayValue(X, c, t) == Sample(X.signal, c, X.start + t)

(***************************************************************************)
(* pyriemann.spatialfilters.AJDC as the scripts use it.  The object is a   *)
(* record of its constructor arguments and of the attributes set by fit    *)
(* (or restored field by field in process_denoising).                      *)
(***************************************************************************)
\* a matrix is its shape and the set of its non-zero entries <<row, column, value>>
Matrix(rows, cols, nz) == [shape |-> <<rows, cols>>, nz |-> nz]

AJDC(window, overlap, fmin, fmax, fs, dim_red) ==
    [window |-> window, overlap |-> overlap, fmin |-> fmin, fmax |-> fmax,
     fs |-> fs, dim_red |-> dim_red,
     n_channels_ |-> 0, n_sources_ |-> 0,
     forward_filters_ |-> Matrix(0, 0, {}), backward_filters_ |-> Matrix(0, 0, {}),
     freqs_ |-> <<>>]

\* number of sources the dimension reduction retains for a calibration signal
RetainedBase == 2
NSources(signal) == RetainedBase + signal.seed

\* the channel (column) that source s reads, and its sign
SourceChannel(signal, s) == ((signal.seed * 7 + 5 * s) % Len(signal.ch_names)) + 1
SourceSign(signal, s) == IF (s + signal.seed) % 2 = 0 THEN 1 ELSE -1

\* ajdc.fit(signal.get_data()[np.newaxis, np.newaxis, ...]): raises when the
\* band exceeds the Nyquist frequency or the signal is shorter than one
\* window; otherwise sets the fitted attributes.  The filters stand for the
\* joint diagonalizer of the cospectra: forward is n_sources x n_channels,
\* backward is its pseudo-inverse (n_channels x n_sources), and freqs_ are
\* the frequencies of the cospectra (1 Hz bins for a window of fs samples).
fit(ajdc, signal) ==
    IF 2 * ajdc.fmax > ajdc.fs \/ ajdc.fmax <= ajdc.fmin
       \/ signal.n_times < ajdc.window
    THEN Raise("ValueError", ajdc)
    ELSE LET C == Len(signal.ch_names)
             S == NSources(signal)
             F == {<<s, SourceChannel(signal, s), SourceSign(signal, s)>> : s \in 1..S}
         IN Ok([ajdc EXCEPT
                  !.n_channels_ = C,
                  !.n_sources_ = S,
                  !.forward_filters_ = Matrix(S, C, F),
                  !.backward_filters_ = Matrix(C, S, {<<e[2], e[1], e[3]>> : e \in F}),
                  !.freqs_ = [i \in 1..(ajdc.fmax - ajdc.fmin + 1) |->
                                 ajdc.fmin + i - 1]])

\* ajdc.transform(X): X must have n_channels_ rows; the result is the view
\* forward_filters_ @ X
transform(ajdc, X) ==
    IF Rows(X) # ajdc.n_channels_
    THEN Raise("ValueError", <<>>)
    ELSE Ok([demixage |-> ajdc.forward_filters_, X |-> X])

\* sum of the second components of a finite set of pairs <<key, term>>
RECURSIVE SumTerms(_)
SumTerms(S) ==
    IF S = {} THEN 0
    ELSE LET e == CHOOSE x \in S : TRUE IN e[2] + SumTerms(S \ {e})

\* value of source row s at column t of forward_filters_ @ X
SourceValue(sources, s, t) ==
    SumTerms({<<e, e[3] * ArrayValue(sources.X, e[2], t)>> :
                 e \in {x \in sources.demixage.nz : x[1] = s}})

\* a reconstruction in which each mention of an index flips its source:
\* an index listed twice is restored
inverse_transform_Toggles(ajdc, sources, supp) ==
    IF \E i \in 1..Len(supp) : supp[i] >= ajdc.n_sources_
    THEN Raise("IndexError", <<>>)
    ELSE Ok([mixage |-> ajdc.backward_filters_,
             denois |-> [s \in 1..ajdc.n_sources_ |->
                            IF Cardinality({i \in 1..Len(supp) : supp[i] = s - 1}) % 2 = 1
                            THEN 0 ELSE 1],
             sources |-> sources])

\* ajdc.inverse_transform(sources, supp=bad_sources): denois is the identity
\* with denois[s, s] = 0 for every s of the list supp (0-based; an index
\* beyond the last source raises IndexError); the result is
\* backward_filters_ @ denois @ sources
inverse_transform(ajdc, sources, supp) ==
    IF \E i \in 1..Len(supp) : supp[i] >= ajdc.n_sources_
    THEN Raise("IndexError", <<>>)
    ELSE Ok([mixage |-> ajdc.backward_filters_,
             denois |-> [s \in 1..ajdc.n_sources_ |->
                            IF (s - 1) \in Range(supp) THEN 0 ELSE 1],
             sources |-> sources])

\* value of channel row c at column t of a reconstructed array
DenoisedValue(d, c, t) ==
    SumTerms({<<e, e[3] * d.denois[e[2]] * SourceValue(d.sources, e[2], t)>> :
                 e \in {x \in d.mixage.nz : x[1] = c}})

(***************************************************************************)
(* The operator's answers: the line typed at an input(...) prompt, as a    *)
(* sequence of characters.  "^2" stands for the one character SUPERSCRIPT  *)
(* TWO (U+00B2).                                                           *)
(***************************************************************************)
Answers ==
    { <<>>,
      <<"0">>,
      <<"1", " ", "x", " ", " ", "2", " ", "1">>,
      <<"^2">> }

\* the lines typed at the saccade prompt
SaccadeAnswers == Answers \ {<<"0">>}

\* characters that are digits for str.isdigit() but that int() rejects
SuperscriptDigits == {"^2"}

IsSpace(c) == c = " "

\* first token of a line that starts with a non-space character
FirstToken(line) ==
    LET n == CHOOSE i \in 1..Len(line) :
                 /\ \A j \in 1..i : ~IsSpace(line[j])
                 /\ (i = Len(line) \/ IsSpace(line[i + 1]))
    IN SubSeq(line, 1, n)

\* line.split(): the maximal runs of non-space characters, in order
RECURSIVE split(_)
split(line) ==
    IF line = <<>> THEN <<>>
    ELSE IF IsSpace(line[1]) THEN split(Tail(line))
    ELSE LET tok == FirstToken(line)
         IN <<tok>> \o split(SubSeq(line, Len(tok) + 1, Len(line)))

\* num.isdigit()
isdigit(tok) ==
    /\ tok # <<>>
    /\ \A i \in 1..Len(tok) : IsDigitChar(tok[i]) \/ tok[i] \in SuperscriptDigits

\* [int(num) for num in tokens if num.isdigit()]: int(num) raises ValueError
\* for a token that holds a character that is no decimal digit
ParseIndices(tokens) ==
    LET digits == SelectSeq(tokens, isdigit)
        IsDecimal(tok) == \A i \in 1..Len(tok) : IsDigitChar(tok[i])
    IN IF \E i \in 1..Len(digits) : ~IsDecimal(digits[i])
       THEN Raise("ValueError", <<>>)
       ELSE Ok([i \in 1..Len(digits) |-> int(digits[i])])

(***************************************************************************)
(* tools/data_manager.py: the parameter files.  The store maps the path of *)
(* every existing .npz file to the record of arrays it holds.              *)
(***************************************************************************)
ParametersFolder == "_PARAMETERS_"
ParametersSuffix == "parameters_AJDC.npz"

\* saving_path and filename of process_calibration, joined by
\* save_ajdc_parameters
ParametersPathSaved(band, condition, subject) ==
    <<ParametersFolder, band, condition, subject \o <<ParametersSuffix>>>>

\* a load path that names the first condition whatever the key
ParametersPathLoaded_FirstCondition(band, condition, subject) ==
    <<ParametersFolder, band, conditions[1], subject \o <<ParametersSuffix>>>>

\* parameters_path of process_denoising
ParametersPathLoaded(band, condition, subject) ==
    <<ParametersFolder, band, condition, subject \o <<ParametersSuffix>>>>

\* a save that, for an existing file, updates the artifact indices only
save_ajdc_parameters_UpdatesIndices(st, ajdc, blink, saccade, path) ==
    IF path \in DOMAIN st
    THEN [st EXCEPT ![path].blinks_components = blink]
    ELSE [q \in DOMAIN st \cup {path} |->
             IF q = path
             THEN [n_channel |-> ajdc.n_channels_, sfreq |-> ajdc.freqs_,
                   fmax |-> ajdc.fmax, fmin |-> ajdc.fmin,
                   n_source |-> ajdc.n_sources_, overlap |-> ajdc.overlap,
                   demixage |-> ajdc.forward_filters_,
                   mixage |-> ajdc.backward_filters_,
                   blinks_components |-> blink, saccades_components |-> saccade]
             ELSE st[q]]

\* a save that rewrites the whole store with the one record
save_ajdc_parameters_Truncates(st, ajdc, blink, saccade, path) ==
    [q \in {path} |->
        [n_channel |-> ajdc.n_channels_, sfreq |-> ajdc.freqs_,
         fmax |-> ajdc.fmax, fmin |-> ajdc.fmin,
         n_source |-> ajdc.n_sources_, overlap |-> ajdc.overlap,
         demixage |-> ajdc.forward_filters_,
         mixage |-> ajdc.backward_filters_,
         blinks_components |-> blink, saccades_components |-> saccade]]

\* np.savez(path/filename, n_channel=..., ...): creates or replaces the file
save_ajdc_parameters(st, ajdc, blink, saccade, path) ==
    LET record == [n_channel |-> ajdc.n_channels_,
                   sfreq |-> ajdc.freqs_,
                   fmax |-> ajdc.fmax,
                   fmin |-> ajdc.fmin,
                   n_source |-> ajdc.n_sources_,
                   overlap |-> ajdc.overlap,
                   demixage |-> ajdc.forward_filters_,
                   mixage |-> ajdc.backward_filters_,
                   blinks_components |-> blink,
                   saccades_components |-> saccade]
    IN [q \in DOMAIN st \cup {path} |-> IF q = path THEN record ELSE st[q]]

\* a load that answers a missing file with an empty record
np_load_Default(st, path) ==
    IF path \in DOMAIN st THEN Ok(st[path])
    ELSE Ok([n_channel |-> 0, sfreq |-> <<>>, fmax |-> 0, fmin |-> 0, n_source |-> 0,
             overlap |-> "0.5", demixage |-> Matrix(0, 0, {}),
             mixage |-> Matrix(0, 0, {}), blinks_components |-> <<0>>,
             saccades_components |-> <<>>])

\* np.load(parameters_path)
np_load(st, path) ==
    IF path \in DOMAIN st THEN Ok(st[path])
    ELSE Raise("FileNotFoundError", <<>>)

(***************************************************************************)
(* AJDC/denoising.py, lines 64-76 and 92-111                               *)
(***************************************************************************)
\* a rebuild that takes each filter from the other matrix of the record
restore_ajdc_Swapped(ajdc_parameters) ==
    [AJDC(ajdc_parameters.sfreq, ajdc_parameters.overlap, ajdc_parameters.fmin,
          ajdc_parameters.fmax, ajdc_parameters.sfreq, "max_cond 100")
     EXCEPT !.n_channels_ = ajdc_parameters.n_channel,
            !.n_sources_ = ajdc_parameters.n_source,
            !.backward_filters_ = ajdc_parameters.demixage,
            !.forward_filters_ = ajdc_parameters.mixage,
            !.freqs_ = ajdc_parameters.sfreq]

\* the AJDC object rebuilt from a parameter record
restore_ajdc(ajdc_parameters) ==
    [AJDC(ajdc_parameters.sfreq, ajdc_parameters.overlap, ajdc_parameters.fmin,
          ajdc_parameters.fmax, ajdc_parameters.sfreq, "max_cond 100")
     EXCEPT !.n_channels_ = ajdc_parameters.n_channel,
            !.n_sources_ = ajdc_parameters.n_source,
            !.backward_filters_ = ajdc_parameters.mixage,
            !.forward_filters_ = ajdc_parameters.demixage,
            !.freqs_ = ajdc_parameters.sfreq]

\* bad_sources = [blinks.flatten()]; [int(b) for b in bad_sources if not
\* np.isnan(b)]: the one element b is the whole blink array.  With exactly
\* one blink index the result is that index.  With none, or with several,
\* "not np.isnan(b)" or int(b) raises; which of the two, and so the name of
\* the exception, depends on the numpy version: every outcome is listed.
bad_sources_outcomes(ajdc_parameters) ==
    LET b == ajdc_parameters.blinks_components
    IN IF Len(b) = 1 THEN {Ok(<<b[1]>>)}
       ELSE IF Len(b) = 0 THEN {Raise("TypeError", <<>>), Raise("ValueError", <<>>)}
       ELSE {Raise("ValueError", <<>>)}

\* a loop that keeps a buffer between iterations: from the second epoch on
\* it transforms the epoch of the iteration before
RECURSIVE denoise_epochs_Stale(_, _, _, _, _)
denoise_epochs_Stale(ajdc, epochs, bad_sources, k, raws) ==
    IF k > Len(epochs) THEN [error |-> "", by |-> "", val |-> raws]
    ELSE LET sources == transform(ajdc, epochs[IF k > 1 THEN k - 1 ELSE k])
         IN IF sources.error # ""
            THEN [error |-> sources.error, by |-> "transform", val |-> raws]
            ELSE LET denoised_data == inverse_transform(ajdc, sources.val, bad_sources)
                 IN IF denoised_data.error # ""
                    THEN [error |-> denoised_data.error, by |-> "inverse_transform",
                          val |-> raws]
                    ELSE denoise_epochs_Stale(ajdc, epochs, bad_sources, k + 1,
                                              Append(raws, denoised_data.val))

\* the loop over the epochs: transform, inverse_transform, append; the first
\* exception ends it
RECURSIVE denoise_epochs(_, _, _, _, _)
denoise_epochs(ajdc, epochs, bad_sources, k, raws) ==
    IF k > Len(epochs) THEN [error |-> "", by |-> "", val |-> raws]
    ELSE LET sources == transform(ajdc, epochs[k])
         IN IF sources.error # ""
            THEN [error |-> sources.error, by |-> "transform", val |-> raws]
            ELSE LET denoised_data == inverse_transform(ajdc, sources.val, bad_sources)
                 IN IF denoised_data.error # ""
                    THEN [error |-> denoised_data.error, by |-> "inverse_transform",
                          val |-> raws]
                    ELSE denoise_epochs(ajdc, epochs, bad_sources, k + 1,
                                        Append(raws, denoised_data.val))

\* Raw.set_annotations(annotations) on a signal of n_times samples that
\* starts at sample 0: an annotation that begins after the end of the data
\* is omitted, one that runs over the end is shortened
set_annotations(annotations, n_times) ==
    LET Inside(a) == a.onset <= n_times
        kept == SelectSeq(annotations, Inside)
    IN [i \in 1..Len(kept) |->
           IF kept[i].onset + kept[i].duration > n_times
           THEN [kept[i] EXCEPT !.duration = n_times - kept[i].onset]
           ELSE kept[i]]

\* mne.concatenate_raws(raws) followed by set_annotations(signal.annotations);
\* an empty list raises (ValueError or IndexError with the mne version)
concatenate_outcomes(raws, signal) ==
    IF raws = <<>> THEN {Raise("ValueError", <<>>), Raise("IndexError", <<>>)}
    ELSE {Ok([ch_names |-> signal.ch_names, sfreq |-> signal.sfreq,
              meas_date |-> signal.meas_date, blocks |-> raws,
              annotations |->
                  set_annotations(signal.annotations,
                                  Len(raws) * EpochLength(signal))])}

DenoisingFolder == "_DENOISING_EEG_"
DenoisedSuffix == "_denoised.vhdr"

\* saving_path/filename of the corrected signal of one recording; the file
\* names of the loop contain ".vhdr", so file.index(".") finds a dot
DenoisedPath(band, condition, subject, file) ==
    <<DenoisingFolder, band, condition, subject,
      SubSeq(file, 1, IndexOf(file, ".") - 1) \o <<DenoisedSuffix>>>>

VhdrSuffix == <<".", "v", "h", "d", "r">>
\* a mark that the first recording of any run carries
CalibrationMark_AnyRun == <<"-", "1", ".", "v", "h", "d", "r">>
CalibrationMark == <<"2", "-", "1", ".", "v", "h", "d", "r">>

(***************************************************************************)
(* State                                                                   *)
(***************************************************************************)
VARIABLES
    raw_data,     \* the raw data directory of the processed subject: <<>> when
                  \* it does not exist, else <<its entries>>
    store,        \* parameter files: path -> record
    exported,     \* corrected signals written by process_denoising: path -> signal
    calib_files,  \* paths of the files written by process_calibration
    run,          \* number of analyses started
    analysis,     \* the analysis of the current (or last) run
    ci, si,       \* the drivers' loops: index of the condition, of the subject
    pc,           \* position of the program
    loc,          \* locals of the process_* call in progress (or that failed)
    error,        \* "" or the exception that ended the current run
    called,       \* <<condition, subject>> pairs process_* was called for, this run
    io,           \* [op, condition, subject]: disk accesses of this run
    fitted_on     \* parameter path -> channel names and sampling rate of the
                  \* calibration signal its decomposition was fit on

vars == <<raw_data, store, exported, calib_files, run, analysis, ci, si, pc,
          loc, error, called, io, fitted_on>>

\* the subject list the drivers are called with: a sample of sub_list that
\* holds every skipped subject and one subject that is processed
\* (sub-Pilote2, sub-S001, sub-S006, sub-S009, sub-S010)
subjects == <<sub_list[1], sub_list[2], sub_list[7], sub_list[10], sub_list[11]>>

\* a skip list that lacks subject 10
SkipNumbers_Without10 == {0, 1, 9}

\* the subject numbers for which no data is available
SkipNumbers == {0, 1, 9, 10}

NoError == [type |-> "", by |-> ""]

EmptyLoc ==
    [files |-> <<>>, fi |-> 0, signal |-> <<>>, ajdc |-> <<>>,
     blink_line |-> <<>>, saccade_line |-> <<>>,
     blink_str |-> <<>>, saccade_str |-> <<>>, bad_sources |-> <<>>,
     fits |-> 0, asked |-> 0, saves |-> 0, params |-> <<>>, epochs |-> <<>>,
     prepared |-> <<>>, file |-> <<>>, steps |-> <<>>]

Init ==
    /\ raw_data \in {<<>>} \cup {<<d>> : d \in Directories}
    /\ store = <<>>
    /\ exported = <<>>
    /\ calib_files = {}
    /\ run = 0
    /\ analysis = ""
    /\ ci = 1 /\ si = 1
    /\ pc = "main"
    /\ loc = EmptyLoc
    /\ error = NoError
    /\ called = {}
    /\ io = {}
    /\ fitted_on = <<>>

condition == conditions[ci]
subject == subjects[si]

IO(op) == [op |-> op, condition |-> condition, subject |-> subject]

\* the exception of type e raised by the call named by propagates through the
\* driver and main: the run ends
RaiseError(e, by) == pc' = "main" /\ error' = [type |-> e, by |-> by]

\* the loops of the drivers move on: next subject, then next condition
\* (first subject), then the end of the run
GoNext ==
    IF si < Len(subjects) THEN si' = si + 1 /\ ci' = ci /\ pc' = "loop"
    ELSE IF ci < Len(conditions) THEN si' = 1 /\ ci' = ci + 1 /\ pc' = "loop"
    ELSE si' = si /\ ci' = ci /\ pc' = "main"

(***************************************************************************)
(* main.py: the operator selects an analysis                               *)
(***************************************************************************)
StartRun ==
    /\ pc = "main"
    /\ run < MaxRuns
    /\ \E a \in {"AJDC_calibration", "AJDC_denoising"} : analysis' = a
    /\ run' = run + 1
    /\ ci' = 1 /\ si' = 1
    /\ pc' = "loop"
    /\ loc' = EmptyLoc
    /\ error' = NoError
    /\ called' = {}
    /\ io' = {}
    /\ UNCHANGED <<raw_data, store, exported, calib_files, fitted_on>>

(***************************************************************************)
(* calibrate_ajdc / denoise_ajdc                                           *)
(***************************************************************************)
IsSkipped(subj) == extract_number(subj) \in SkipNumbers

\* "Data not available": continue
DriverSkip ==
    /\ pc = "loop"
    /\ IsSkipped(subject)
    /\ GoNext
    /\ UNCHANGED <<raw_data, store, exported, calib_files, run, analysis, loc,
                   error, called, io, fitted_on>>

\* process_calibration(...) or process_denoising(...) is called
DriverCall ==
    /\ pc = "loop"
    /\ ~IsSkipped(subject)
    /\ called' = called \cup {<<condition, subject>>}
    /\ loc' = EmptyLoc
    /\ pc' = IF analysis = "AJDC_calibration" THEN "cal_listdir" ELSE "den_load"
    /\ UNCHANGED <<raw_data, store, exported, calib_files, run, analysis, ci, si,
                   error, io, fitted_on>>

\* the for loop over the files is exhausted: the call returns
ProcessReturn ==
    /\ pc \in {"cal_file", "den_file"}
    /\ loc.fi > Len(loc.files)
    /\ GoNext
    /\ loc' = EmptyLoc
    /\ UNCHANGED <<raw_data, store, exported, calib_files, run, analysis,
                   error, called, io, fitted_on>>

(***************************************************************************)
(* AJDC/calibration.py: process_calibration                                *)
(***************************************************************************)
CalibrationDataPath(band, cond, subj) ==
    <<"_CALIBRATION_DATA_", band, cond, subj, subj \o <<"_calibration_data.vhdr">>>>
SourcesPath(band, cond, subj) ==
    <<"_SOURCES_", band, cond, subj \o <<"_components_data.vhdr">>>>
CorrectedCalibrationPath(band, cond, subj) ==
    <<"_CALIBRATION_DATA_", band, cond, subj, subj \o <<"calibration_corrected.vhdr">>>>
ReportPath(band, cond, subj) ==
    <<"_AJDC_", band, cond,
      subj \o <<"_AJDC_Decomposition_">> \o band \o <<".html">>>>

\* os.listdir of a directory: the names of its entries
listdir(d) == [i \in 1..Len(d) |-> d[i].name]

\* load_data(file) in the subject directory: the recordings it may return
load_data(d, file) == d[CHOOSE i \in 1..Len(d) : d[i].name = file].raw

\* os.chdir(directory); os.listdir(directory): the directory may be missing
CalListdir ==
    /\ pc = "cal_listdir"
    /\ IF raw_data = <<>>
       THEN /\ RaiseError("FileNotFoundError", "os.chdir")
            /\ UNCHANGED <<loc, io>>
       ELSE /\ loc' = [loc EXCEPT !.files = listdir(raw_data[1]), !.fi = 1]
            /\ io' = io \cup {IO("listdir")}
            /\ pc' = "cal_file"
            /\ error' = error
    /\ UNCHANGED <<raw_data, store, exported, calib_files, run, analysis, ci, si,
                   called, fitted_on>>

\* one iteration of the loop over the files, up to the first prompt:
\* lines 65-108.  raw is the recording read when the file is a calibration
\* file, clean the operator's bounds when the condition is _CLEAN_.
CalFile ==
    /\ pc = "cal_file"
    /\ loc.fi <= Len(loc.files)
    /\ \E clean \in CleanBounds, raw \in load_data(raw_data[1], loc.files[loc.fi]) :
         LET file == loc.files[loc.fi]
             is_cal == Contains(CalibrationMark, file)
             prepared == preparing_data_BetaPark(raw, extract_number(subject), FALSE)
             cropped == crop_calibration_signal_BetaPark(prepared.val, condition, clean)
             load_error == IF ~is_cal THEN ""
                           ELSE IF prepared.error # "" THEN prepared.error
                           ELSE cropped.error
             loaded == IF is_cal THEN <<cropped.val>> ELSE loc.signal
             io1 == IF is_cal THEN io \cup {IO("read_raw")} ELSE io
         IN IF load_error # ""
            THEN /\ RaiseError(load_error,
                                IF prepared.error # "" THEN "preparing_data_BetaPark"
                                ELSE "crop_calibration_signal_BetaPark")
                 /\ io' = io1
                 /\ loc' = [loc EXCEPT !.file = file, !.steps = <<>>]
                 /\ UNCHANGED calib_files
            ELSE IF loaded = <<>>
            THEN \* 'signal' is not in locals(): next file
                 /\ loc' = [loc EXCEPT !.fi = @ + 1, !.file = file, !.steps = <<>>]
                 /\ UNCHANGED <<pc, error, io, calib_files>>
            ELSE LET signal == preprocessing(loaded[1], TRUE, "1.0", FALSE)
                     ajdc == AJDC(signal.sfreq, "0.5",
                                  int(NegSlice(frequencie_file, -5, -4)),
                                  int(NegSlice(frequencie_file, -3, -1)),
                                  signal.sfreq, "expl_var 0.99")
                     fitted == fit(ajdc, signal)
                     data_path == CalibrationDataPath(frequencie_file, condition, subject)
                 IN /\ io' = io1 \cup {IO("export")}
                    /\ IF fitted.error # ""
                       THEN /\ RaiseError(fitted.error, "fit")
                            /\ calib_files' = calib_files \cup {data_path}
                            /\ loc' = [loc EXCEPT !.signal = <<signal>>,
                                                  !.fits = @ + 1,
                                                  !.file = file, !.steps = <<>>]
                       ELSE /\ calib_files' = calib_files \cup
                                 {data_path,
                                  SourcesPath(frequencie_file, condition, subject)}
                            /\ loc' = [loc EXCEPT !.signal = <<signal>>,
                                                  !.ajdc = <<fitted.val>>,
                                                  !.blink_line = <<>>,
                                                  !.saccade_line = <<>>,
                                                  !.blink_str = <<>>,
                                                  !.saccade_str = <<>>,
                                                  !.fits = @ + 1,
                                                  !.bad_sources = <<>>,
                                                  !.file = file,
                                                  !.steps = <<"fit">>]
                            /\ pc' = "cal_blink"
                            /\ error' = error
    /\ UNCHANGED <<raw_data, store, exported, run, analysis, ci, si, called, fitted_on>>

\* an iteration that persists the record as soon as the blink answer is in
CalBlinkAnswer_SavesEarly ==
    /\ pc = "cal_blink"
    /\ \E answer \in Answers :
         /\ loc' = [loc EXCEPT !.blink_line = answer, !.blink_str = split(answer),
                                !.asked = @ + 1,
                                !.steps = Append(@, "blink")]
         /\ store' = save_ajdc_parameters(store, loc.ajdc[1],
                         ParseIndices(split(answer)).val, <<>>,
                         ParametersPathSaved(frequencie_file, condition, subject))
    /\ pc' = "cal_saccade"
    /\ UNCHANGED <<raw_data, exported, calib_files, run, analysis, ci, si,
                   error, called, io, fitted_on>>

\* blink_str = input("Blink Component(s) : ").split()
CalBlinkAnswer ==
    /\ pc = "cal_blink"
    /\ \E answer \in Answers :
         loc' = [loc EXCEPT !.blink_line = answer, !.blink_str = split(answer),
                            !.asked = @ + 1,
                            !.steps = Append(@, "blink")]
    /\ pc' = "cal_saccade"
    /\ UNCHANGED <<raw_data, store, exported, calib_files, run, analysis, ci, si,
                   error, called, io, fitted_on>>

\* saccade_str = input(...).split() and the rest of the iteration:
\* lines 111-142
CalSaccadeAnswer ==
    /\ pc = "cal_saccade"
    /\ \E answer \in SaccadeAnswers :
         LET saccade_str == split(answer)
             blink == ParseIndices(loc.blink_str)
             saccade == ParseIndices(saccade_str)
             bad_sources == blink.val \o saccade.val
             ajdc == loc.ajdc[1]
             source == transform(ajdc, get_data(loc.signal[1]))
             corrected == inverse_transform(ajdc, source.val, bad_sources)
             path == ParametersPathSaved(frequencie_file, condition, subject)
         IN IF blink.error # "" \/ saccade.error # ""
            THEN /\ RaiseError("ValueError", "int")
                 /\ loc' = [loc EXCEPT !.saccade_line = answer,
                                       !.saccade_str = saccade_str,
                                       !.steps = Append(@, "saccade")]
                 /\ UNCHANGED <<store, fitted_on, io, calib_files>>
            ELSE
            /\ store' = save_ajdc_parameters(store, ajdc, blink.val, saccade.val, path)
            /\ fitted_on' =
                  [q \in DOMAIN fitted_on \cup {path} |->
                      IF q = path THEN [ch_names |-> loc.signal[1].ch_names,
                                        sfreq |-> loc.signal[1].sfreq,
                                        signal |-> loc.signal[1],
                                        ajdc |-> ajdc,
                                        bad_sources |-> bad_sources]
                      ELSE fitted_on[q]]
            /\ LET saved == [loc EXCEPT !.saccade_line = answer,
                                        !.saccade_str = saccade_str,
                                        !.bad_sources = bad_sources,
                                        !.steps = @ \o <<"saccade", "save">>,
                                        !.saves = @ + 1]
               IN IF corrected.error # ""
                  THEN /\ RaiseError(corrected.error, "inverse_transform")
                       /\ io' = io \cup {IO("np.savez")}
                       /\ loc' = saved
                       /\ UNCHANGED calib_files
                  ELSE /\ calib_files' = calib_files \cup
                            {CorrectedCalibrationPath(frequencie_file, condition, subject),
                             ReportPath(frequencie_file, condition, subject)}
                       /\ io' = io \cup {IO("np.savez"), IO("export")}
                       /\ loc' = [saved EXCEPT !.fi = @ + 1]
                       /\ pc' = "cal_file"
                       /\ error' = error
    /\ UNCHANGED <<raw_data, exported, run, analysis, ci, si, called>>

(***************************************************************************)
(* AJDC/denoising.py: process_denoising                                    *)
(***************************************************************************)
\* a load that consumes the record: the file is removed once read
DenLoad_RemovesRecord ==
    /\ pc = "den_load"
    /\ LET path == ParametersPathLoaded(frequencie_file, condition, subject)
           ajdc_parameters == np_load(store, path)
       IN /\ io' = io \cup {IO("np.load")}
          /\ store' = [q \in DOMAIN store \ {path} |-> store[q]]
          /\ IF ajdc_parameters.error # ""
             THEN RaiseError(ajdc_parameters.error, "np.load") /\ UNCHANGED loc
             ELSE /\ RaiseError("ValueError", "bad_sources")
                  /\ loc' = [loc EXCEPT !.params = <<ajdc_parameters.val>>,
                                        !.ajdc = <<restore_ajdc(ajdc_parameters.val)>>]
    /\ UNCHANGED <<raw_data, exported, calib_files, run, analysis, ci, si,
                   called, fitted_on>>

\* lines 60-76: load the record, rebuild the AJDC object, bad_sources
DenLoad ==
    /\ pc = "den_load"
    /\ LET ajdc_parameters ==
               np_load(store, ParametersPathLoaded(frequencie_file, condition, subject))
       IN /\ io' = io \cup {IO("np.load")}
          /\ IF ajdc_parameters.error # ""
             THEN /\ RaiseError(ajdc_parameters.error, "np.load")
                  /\ UNCHANGED loc
             ELSE \E bad \in bad_sources_outcomes(ajdc_parameters.val) :
                    IF bad.error # ""
                    THEN /\ RaiseError(bad.error, "bad_sources")
                         /\ loc' = [loc EXCEPT !.params = <<ajdc_parameters.val>>,
                                        !.ajdc = <<restore_ajdc(ajdc_parameters.val)>>]
                    ELSE /\ loc' = [loc EXCEPT !.params = <<ajdc_parameters.val>>,
                                        !.ajdc = <<restore_ajdc(ajdc_parameters.val)>>,
                                        !.bad_sources = bad.val]
                         /\ pc' = "den_listdir"
                         /\ error' = error
    /\ UNCHANGED <<raw_data, store, exported, calib_files, run, analysis, ci, si,
                   called, fitted_on>>

\* lines 78-82: os.chdir(eeg_path) and the files whose name contains ".vhdr"
DenListdir ==
    /\ pc = "den_listdir"
    /\ IF raw_data = <<>>
       THEN /\ RaiseError("FileNotFoundError", "os.chdir")
            /\ UNCHANGED <<loc, io>>
       ELSE LET HasSuffixe(f) == Contains(VhdrSuffix, f)
            IN /\ loc' = [loc EXCEPT
                            !.files = SelectSeq(listdir(raw_data[1]), HasSuffixe),
                            !.fi = 1]
               /\ io' = io \cup {IO("listdir")}
               /\ pc' = "den_file"
               /\ error' = error
    /\ UNCHANGED <<raw_data, store, exported, calib_files, run, analysis, ci, si,
                   called, fitted_on>>

\* one iteration of the loop over the files: lines 83-111
DenFile ==
    /\ pc = "den_file"
    /\ loc.fi <= Len(loc.files)
    /\ \E raw \in load_data(raw_data[1], loc.files[loc.fi]) :
         LET file == loc.files[loc.fi]
             prepared == preparing_data_BetaPark(raw, extract_number(subject), TRUE)
             signal == preprocessing(prepared.val, TRUE, "0.5", TRUE)
             epochs == make_fixed_length_epochs(signal)
             raws == denoise_epochs(loc.ajdc[1], epochs, loc.bad_sources, 1, <<>>)
         IN /\ io' = io \cup {IO("read_raw")}
            /\ IF prepared.error # ""
               THEN /\ RaiseError(prepared.error, "preparing_data_BetaPark")
                    /\ loc' = [loc EXCEPT !.file = file]
                    /\ UNCHANGED exported
               ELSE IF raws.error # ""
               THEN /\ RaiseError(raws.error, raws.by)
                    /\ loc' = [loc EXCEPT !.prepared = <<signal>>, !.epochs = epochs,
                                          !.file = file]
                    /\ UNCHANGED exported
               ELSE \E signal_corrected \in concatenate_outcomes(raws.val, signal) :
                      IF signal_corrected.error # ""
                      THEN /\ RaiseError(signal_corrected.error, "concatenate_raws")
                           /\ loc' = [loc EXCEPT !.prepared = <<signal>>,
                                                 !.epochs = epochs,
                                                 !.file = file]
                           /\ UNCHANGED exported
                      ELSE LET path == DenoisedPath(frequencie_file, condition,
                                                    subject, file)
                           IN /\ exported' =
                                   [q \in DOMAIN exported \cup {path} |->
                                       IF q = path THEN signal_corrected.val
                                       ELSE exported[q]]
                              /\ loc' = [loc EXCEPT !.prepared = <<signal>>,
                                                    !.epochs = epochs,
                                                    !.file = file,
                                                    !.fi = @ + 1]
                              /\ UNCHANGED <<pc, error>>
    /\ UNCHANGED <<raw_data, store, calib_files, run, analysis, ci, si, called,
                   fitted_on>>

Next ==
    \/ StartRun
    \/ DriverSkip
    \/ DriverCall
    \/ ProcessReturn
    \/ CalListdir
    \/ CalFile
    \/ CalBlinkAnswer
    \/ CalSaccadeAnswer
    \/ DenLoad
    \/ DenListdir
    \/ DenFile

Spec == Init /\ [][Next]_vars

(***************************************************************************)
(* main.py with the band of line 33 set to any of Bands, and the drivers   *)
(* over the whole sub_list of setup_betapark.  Of process_* the batch      *)
(* keeps what it does with the key: the band read back from the identifier *)
(* for the fit, the parameter file written or loaded, and whether the call *)
(* returns or raises (for the reasons Spec goes through).  loc holds the   *)
(* module-level variables of main.py and the locals of the last call.      *)
(***************************************************************************)
\* the values fmin_ajdc, fmax_ajdc may be given
Bands == {<<1, 80>>, <<8, 13>>, <<10, 80>>, <<1, 100>>}

\* f"_BAND_{fmin_ajdc}_{fmax_ajdc}_"
BandIdentifier(fmin, fmax) ==
    <<"_", "B", "A", "N", "D", "_">> \o str(fmin) \o <<"_">> \o str(fmax) \o <<"_">>

\* int(s) of a Python string: ValueError unless s is made of decimal digits
\* (the slices taken of the identifier are too short for "1_0")
IntOf(s) ==
    IF s # <<>> /\ \A i \in 1..Len(s) : IsDigitChar(s[i])
    THEN Ok(int(s))
    ELSE Raise("ValueError", None)

BatchLoc(fmin, fmax) ==
    [fmin_ajdc |-> fmin, fmax_ajdc |-> fmax,
     frequencie_file |-> BandIdentifier(fmin, fmax),
     fit_band |-> <<>>, params |-> <<>>]

BatchInit ==
    /\ raw_data = <<>>
    /\ store = <<>>
    /\ exported = <<>>
    /\ calib_files = {}
    /\ run = 0
    /\ analysis = ""
    /\ ci = 1 /\ si = 1
    /\ pc = "main"
    /\ loc \in {BatchLoc(b[1], b[2]) : b \in Bands}
    /\ error = NoError
    /\ called = {}
    /\ io = {}
    /\ fitted_on = <<>>

\* the loops of the drivers over sub_list
BatchGoNext ==
    IF si < Len(sub_list) THEN si' = si + 1 /\ ci' = ci /\ pc' = "loop"
    ELSE IF ci < Len(conditions) THEN si' = 1 /\ ci' = ci + 1 /\ pc' = "loop"
    ELSE si' = si /\ ci' = ci /\ pc' = "main"

BatchStartRun ==
    /\ pc = "main"
    /\ run < MaxRuns
    /\ \E a \in {"AJDC_calibration", "AJDC_denoising"} : analysis' = a
    /\ run' = run + 1
    /\ ci' = 1 /\ si' = 1
    /\ pc' = "loop"
    /\ loc' = [loc EXCEPT !.fit_band = <<>>, !.params = <<>>]
    /\ error' = NoError
    /\ called' = {}
    /\ UNCHANGED <<raw_data, store, exported, calib_files, io, fitted_on>>

\* "Data not available": continue
BatchSkip ==
    /\ pc = "loop"
    /\ extract_number(sub_list[si]) \in SkipNumbers
    /\ BatchGoNext
    /\ UNCHANGED <<raw_data, store, exported, calib_files, run, analysis, loc,
                   error, called, io, fitted_on>>

\* process_calibration(subject, condition, frequencie_file, ...): the band
\* given to the fit is read from the identifier, the record goes to the
\* parameter file of the key
BatchCalibrate ==
    /\ pc = "loop"
    /\ analysis = "AJDC_calibration"
    /\ extract_number(sub_list[si]) \notin SkipNumbers
    /\ called' = called \cup {<<conditions[ci], sub_list[si]>>}
    /\ LET fmin == IntOf(NegSlice(loc.frequencie_file, -5, -4))
           fmax == IntOf(NegSlice(loc.frequencie_file, -3, -1))
           path == ParametersPathSaved(loc.frequencie_file, conditions[ci],
                                       sub_list[si])
       IN IF fmin.error # "" \/ fmax.error # ""
          THEN /\ RaiseError("ValueError", "int")
               /\ UNCHANGED <<store, loc, ci, si>>
          ELSE \E outcome \in {"returns", "raises"} :
                 IF outcome = "raises"
                 THEN /\ RaiseError("Exception", "process_calibration")
                      /\ loc' = [loc EXCEPT !.fit_band = <<fmin.val, fmax.val>>]
                      /\ UNCHANGED <<store, ci, si>>
                 ELSE /\ store' = [q \in DOMAIN store \cup {path} |->
                                      IF q = path
                                      THEN [fmin |-> fmin.val, fmax |-> fmax.val,
                                            condition |-> conditions[ci],
                                            subject |-> sub_list[si],
                                            band |-> loc.frequencie_file]
                                      ELSE store[q]]
                      /\ loc' = [loc EXCEPT !.fit_band = <<fmin.val, fmax.val>>]
                      /\ BatchGoNext
                      /\ error' = error
    /\ UNCHANGED <<raw_data, exported, calib_files, run, analysis, io, fitted_on>>

\* process_denoising(subject, condition, frequencie_file, path): the record
\* is loaded from the parameter file of the key
BatchDenoise ==
    /\ pc = "loop"
    /\ analysis = "AJDC_denoising"
    /\ extract_number(sub_list[si]) \notin SkipNumbers
    /\ called' = called \cup {<<conditions[ci], sub_list[si]>>}
    /\ LET ajdc_parameters ==
               np_load(store, ParametersPathLoaded(loc.frequencie_file,
                                                   conditions[ci], sub_list[si]))
       IN IF ajdc_parameters.error # ""
          THEN /\ RaiseError(ajdc_parameters.error, "np.load")
               /\ UNCHANGED <<loc, ci, si>>
          ELSE \E outcome \in {"returns", "raises"} :
                 /\ loc' = [loc EXCEPT !.params = <<ajdc_parameters.val>>]
                 /\ IF outcome = "raises"
                    THEN /\ RaiseError("Exception", "process_denoising")
                         /\ UNCHANGED <<ci, si>>
                    ELSE BatchGoNext /\ error' = error
    /\ UNCHANGED <<raw_data, store, exported, calib_files, run, analysis, io,
                   fitted_on>>

BatchNext ==
    \/ BatchStartRun
    \/ BatchSkip
    \/ BatchCalibrate
    \/ BatchDenoise

SpecBatch == BatchInit /\ [][BatchNext]_vars

(***************************************************************************)
(* Properties                                                              *)
(***************************************************************************)
\* process_denoising is running (or failed) for the current (condition, subject)
InDenoising ==
    /\ analysis = "AJDC_denoising"
    /\ <<condition, subject>> \in called
    /\ pc \in {"den_load", "den_listdir", "den_file", "main"}

\* process_denoising has read and prepared the recording loc.file
DenoisedRecording == InDenoising /\ loc.prepared # <<>>

\* the parameter file and the output file of the current call
CurrentParametersPath == ParametersPathSaved(frequencie_file, condition, subject)
CurrentDenoisedPath == DenoisedPath(frequencie_file, condition, subject, loc.file)

\* C1: once process_denoising has handled a recording of N samples at rate
\* fs, the corrected output of that recording holds exactly
\* floor(duration / 0.5 s) epochs of fs/2 samples: block k starts at sample
\* (k - 1) * fs/2 of the recording.
C1_OutputHoldsWholeEpochs ==
    DenoisedRecording =>
        LET signal == loc.prepared[1]
            n == signal.sfreq \div 2
        IN /\ CurrentDenoisedPath \in DOMAIN exported
           /\ LET blocks == exported[CurrentDenoisedPath].blocks
              IN /\ Len(blocks) = (2 * signal.n_times) \div signal.sfreq
                 /\ \A k \in 1..Len(blocks) :
                      /\ blocks[k].sources.X.start = (k - 1) * n
                      /\ blocks[k].sources.X.n = n

\* C2: for a recording with at least one epoch, block k of the corrected
\* signal is inverse_transform(transform(epoch k), suppression set) with the
\* filters of the stored record, for every k in increasing order.
C2_BlockIsDenoisedEpoch ==
    (DenoisedRecording /\ loc.epochs # <<>>) =>
        /\ CurrentDenoisedPath \in DOMAIN exported
        /\ LET blocks == exported[CurrentDenoisedPath].blocks
               record == store[CurrentParametersPath]
           IN /\ Len(blocks) = Len(loc.epochs)
              /\ \A k \in 1..Len(blocks) :
                   blocks[k] =
                     [mixage |-> record.mixage,
                      denois |-> [s \in 1..record.n_source |->
                                     IF (s - 1) \in Range(loc.bad_sources)
                                     THEN 0 ELSE 1],
                      sources |-> [demixage |-> record.demixage,
                                   X |-> loc.epochs[k]]]

\* C3: the suppression list process_denoising applies holds exactly the
\* blink and the saccade indices of the key's record.
C3_SuppressionIsBlinkAndSaccade ==
    (InDenoising /\ pc \in {"den_listdir", "den_file"}) =>
        Range(loc.bad_sources) =
            Range(store[CurrentParametersPath].blinks_components)
            \cup Range(store[CurrentParametersPath].saccades_components)

\* C4: when the record of the key holds no artifact index, process_denoising
\* raises nothing and every block it writes has no source zeroed.
C4_EmptySuppressionCompletes ==
    (/\ InDenoising
     /\ CurrentParametersPath \in DOMAIN store
     /\ store[CurrentParametersPath].blinks_components = <<>>
     /\ store[CurrentParametersPath].saccades_components = <<>>) =>
        /\ error = NoError
        /\ \A q \in DOMAIN exported :
             \A k \in 1..Len(exported[q].blocks) :
               \A i \in DOMAIN exported[q].blocks[k].denois :
                 exported[q].blocks[k].denois[i] = 1

\* C5: the channel list of the signal process_denoising cuts into epochs is
\* the channel list of the calibration signal the decomposition was fit on.
C5_SameChannelsAsFit ==
    DenoisedRecording =>
        loc.prepared[1].ch_names = fitted_on[CurrentParametersPath].ch_names

\* the recording does not match what the decomposition was fit on
Mismatch ==
    \/ loc.prepared[1].ch_names # fitted_on[CurrentParametersPath].ch_names
    \/ loc.prepared[1].sfreq # fitted_on[CurrentParametersPath].sfreq

\* C6: a recording whose channel layout or sampling rate differs from the
\* calibration is refused by the check of the layout (the only one the
\* code has is the channel count in transform), and no corrected signal is
\* written for it.
C6_MismatchIsRefused ==
    (DenoisedRecording /\ Mismatch) =>
        /\ pc = "main"
        /\ error = [type |-> "ValueError", by |-> "transform"]
        /\ CurrentDenoisedPath \notin DOMAIN exported

\* the disk accesses of the current call
CurrentIO == {e \in io : e.condition = condition /\ e.subject = subject}

\* C7: while process_denoising runs for a key with no saved record, it is
\* at the load or has failed there with FileNotFoundError; it has listed
\* no directory, read no recording and written no corrected signal.
C7_MissingRecordFailsAtLoad ==
    (InDenoising /\ CurrentParametersPath \notin DOMAIN store) =>
        /\ \/ pc = "den_load"
           \/ pc = "main" /\ error = [type |-> "FileNotFoundError", by |-> "np.load"]
        /\ \A e \in CurrentIO : e.op = "np.load"
        /\ loc.files = <<>> /\ loc.prepared = <<>>
        /\ \A q \in DOMAIN exported : ~(q[3] = condition /\ q[4] = subject)

C7_Witness ==
    /\ InDenoising
    /\ CurrentParametersPath \notin DOMAIN store
    /\ pc = "main"
    /\ error = [type |-> "FileNotFoundError", by |-> "np.load"]
    /\ CurrentIO = {IO("np.load")}

\* the steps of one calibration, in the order the record requires
CalibrationSteps == <<"fit", "blink", "saccade", "save">>

\* the key of a corrected signal's path has a record, and the record
\* process_denoising works with is the stored one
LoadedAfterSave ==
    /\ \A q \in DOMAIN exported :
         ParametersPathSaved(q[2], q[3], q[4]) \in DOMAIN store
    /\ (InDenoising /\ loc.params # <<>>) =>
         /\ CurrentParametersPath \in DOMAIN store
         /\ loc.params[1] = store[CurrentParametersPath]
         /\ CurrentParametersPath \in DOMAIN fitted_on

\* a step that writes the store is the save of the current key's record,
\* taken in calibration when fit, blink answer and saccade answer are done
SaveAfterReview ==
    store' # store =>
        /\ analysis = "AJDC_calibration"
        /\ loc'.steps = CalibrationSteps
        /\ SubSeq(loc'.steps, 1, Len(loc.steps)) = loc.steps
        /\ \A q \in DOMAIN store :
             q # CurrentParametersPath => (q \in DOMAIN store' /\ store'[q] = store[q])

\* C8: the record of a key is saved after the fit and both answers, and
\* process_denoising works (and writes) only with a record saved before.
C8_FitReviewPersistLoad == [][SaveAfterReview]_vars /\ []LoadedAfterSave

C8_Witness ==
    /\ InDenoising
    /\ pc = "den_listdir"
    /\ loc.params = <<store[CurrentParametersPath]>>

\* the subjects of the list for which no data is available
\* (sub-Pilote2, sub-S001, sub-S009, sub-S010)
DataNotAvailable == {sub_list[1], sub_list[2], sub_list[10], sub_list[11]}

\* C9: when a run of a driver is over, process_* has been called for every
\* condition and every subject that is not skipped.
C9_EverySubjectProcessed ==
    (pc = "main" /\ run > 0) =>
        called = {<<c, s>> : c \in Range(conditions),
                             s \in Range(subjects) \ DataNotAvailable}

\* nothing was read or written for a skipped subject
NothingForSkipped ==
    \A s \in DataNotAvailable :
        /\ \A e \in io : e.subject # s
        /\ \A c \in called : c[2] # s
        /\ \A q \in DOMAIN exported : q[4] # s
        /\ \A c \in Range(conditions) :
             /\ ParametersPathSaved(frequencie_file, c, s) \notin DOMAIN store
             /\ {CalibrationDataPath(frequencie_file, c, s),
                 SourcesPath(frequencie_file, c, s),
                 CorrectedCalibrationPath(frequencie_file, c, s),
                 ReportPath(frequencie_file, c, s)} \cap calib_files = {}
        /\ (error # NoError => subject # s)

\* the step the driver takes at a skipped subject changes the loop position
\* only: next subject, next condition, or the regular end of the batch
SkipStep ==
    (pc = "loop" /\ subject \in DataNotAvailable) =>
        /\ UNCHANGED <<raw_data, store, exported, calib_files, called, io, error,
                       fitted_on, loc>>
        /\ error' = NoError
        /\ \/ pc' = "loop" /\ si' = si + 1 /\ ci' = ci
           \/ pc' = "loop" /\ si = Len(subjects) /\ si' = 1 /\ ci' = ci + 1
           \/ pc' = "main" /\ si = Len(subjects) /\ ci = Len(conditions)

\* C10: a "data not available" skip reads and writes nothing for the
\* subject, changes no parameter record, and the loop goes on.
C10_SkipTouchesNothing == [][SkipStep]_vars /\ []NothingForSkipped

C10_Witness ==
    /\ ci = 2
    /\ <<conditions[1], sub_list[7]>> \in called
    /\ <<conditions[2], sub_list[7]>> \in called
    /\ store # <<>>
    /\ NothingForSkipped

\* C11: every record of the store names only fitted sources: its blink and
\* saccade indices lie in 0 .. n_source - 1.
C11_StoredIndicesInRange ==
    \A q \in DOMAIN store :
        \A i \in Range(store[q].blinks_components)
                  \cup Range(store[q].saccades_components) :
            0 <= i /\ i < store[q].n_source

\* the maximal runs <<first, last>> of non-space characters of a line
TokenRuns(line) ==
    {r \in (1..Len(line)) \X (1..Len(line)) :
        /\ r[1] <= r[2]
        /\ \A i \in r[1]..r[2] : line[i] # " "
        /\ (r[1] = 1 \/ line[r[1] - 1] = " ")
        /\ (r[2] = Len(line) \/ line[r[2] + 1] = " ")}

\* the integer values, in input order, of the tokens of a line made only of
\* the digits 0..9
RECURSIVE ValuesOfRuns(_, _)
ValuesOfRuns(line, runs) ==
    IF runs = {} THEN <<>>
    ELSE LET r == CHOOSE x \in runs : \A y \in runs : x[1] <= y[1]
             tok == SubSeq(line, r[1], r[2])
             rest == ValuesOfRuns(line, runs \ {r})
         IN IF \A i \in 1..Len(tok) : IsDigitChar(tok[i])
            THEN <<int(tok)>> \o rest
            ELSE rest

ExpectedIndices(line) == ValuesOfRuns(line, TokenRuns(line))

\* C12: once both answers of a calibration are in, no exception was raised
\* by reading them and the key's record holds, for the blink and for the
\* saccade answer, the values of the all-digit tokens in input order (every
\* other token dropped, an empty answer giving an empty list).
C12_AnswersParsed ==
    (analysis = "AJDC_calibration" /\ Len(loc.steps) >= 3) =>
        /\ error.by # "int"
        /\ CurrentParametersPath \in DOMAIN store
        /\ store[CurrentParametersPath].blinks_components
              = ExpectedIndices(loc.blink_line)
        /\ store[CurrentParametersPath].saccades_components
              = ExpectedIndices(loc.saccade_line)

\* the record a save writes for the decomposition in memory and the two
\* answers just given
RecordInMemory ==
    [n_channel |-> loc.ajdc[1].n_channels_,
     sfreq |-> loc.ajdc[1].freqs_,
     fmax |-> loc.ajdc[1].fmax,
     fmin |-> loc.ajdc[1].fmin,
     n_source |-> loc.ajdc[1].n_sources_,
     overlap |-> loc.ajdc[1].overlap,
     demixage |-> loc.ajdc[1].forward_filters_,
     mixage |-> loc.ajdc[1].backward_filters_,
     blinks_components |-> ExpectedIndices(loc'.blink_line),
     saccades_components |-> ExpectedIndices(loc'.saccade_line)]

\* a step that writes the store leaves at the key, whether the file existed
\* or not, the whole record just saved, and a load of the key returns it
SaveIsWholeRecord ==
    store' # store =>
        LET loaded == np_load(store', ParametersPathLoaded(frequencie_file,
                                                           condition, subject))
        IN /\ loaded.error = ""
           /\ loaded.val = RecordInMemory

\* C13: a save creates the file if absent and replaces the whole record
\* otherwise: a load returns every field of the last saved record.
C13_SaveOverwritesWholeRecord == [][SaveIsWholeRecord]_vars

\* the key's record has been saved twice in this call, and the load gives
\* the answers of the second save
C13_Witness ==
    /\ analysis = "AJDC_calibration"
    /\ loc.saves = 2
    /\ np_load(store, ParametersPathLoaded(frequencie_file, condition, subject)).val
         .blinks_components = ExpectedIndices(loc.blink_line)
    /\ loc.blink_line = <<"0">>
    /\ loc.saccade_line = <<>>

\* number of samples of the test segment on which two outputs are compared
TestSamples == 3

\* ajdc.inverse_transform(ajdc.transform(X), supp): the two calls in a row
Correct(ajdc, X, supp) ==
    LET sources == transform(ajdc, X)
    IN IF sources.error # "" THEN sources
       ELSE inverse_transform(ajdc, sources.val, supp)

\* two corrections of the same segment fail alike or give the same values
SameOutput(a, b, n_channels) ==
    /\ a.error = b.error
    /\ a.error = "" =>
          \A c \in 1..n_channels, t \in 0..(TestSamples - 1) :
              DenoisedValue(a.val, c, t) = DenoisedValue(b.val, c, t)

\* C14: the filters process_denoising restores from a key's record are the
\* filters of the decomposition that was saved, and correcting the
\* calibration segment with the restored object and its suppression list
\* gives the output of the calibration run's in-memory correction.
C14_ReloadedDenoisesAlike ==
    (InDenoising /\ loc.params # <<>>) =>
        LET fitted == fitted_on[CurrentParametersPath]
            restored == loc.ajdc[1]
            X == get_data(fitted.signal)
        IN /\ restored.forward_filters_ = fitted.ajdc.forward_filters_
           /\ restored.backward_filters_ = fitted.ajdc.backward_filters_
           /\ error.by # "bad_sources"
           /\ SameOutput(Correct(restored, X, loc.bad_sources),
                         Correct(fitted.ajdc, X, fitted.bad_sources),
                         fitted.ajdc.n_channels_)

\* the part of C14 about the filters alone
FiltersRestored ==
    (InDenoising /\ loc.params # <<>>) =>
        /\ loc.ajdc[1].forward_filters_
             = fitted_on[CurrentParametersPath].ajdc.forward_filters_
        /\ loc.ajdc[1].backward_filters_
             = fitted_on[CurrentParametersPath].ajdc.backward_filters_

\* the fields of a record, with the names save_ajdc_parameters gives them,
\* and the window length
RecordFields ==
    {"n_channel", "n_source", "sfreq", "fmin", "fmax", "window", "overlap",
     "demixage", "mixage", "blinks_components", "saccades_components"}

\* C15: every record of the store holds all the fields with the values of
\* the fit (sfreq being the sampling rate of the calibration signal), and
\* the object rebuilt from it has the window, overlap, band and sampling
\* rate of the fitted one.
C15_RecordHoldsFitSettings ==
    \A q \in DOMAIN store :
        LET r == store[q]
            f == fitted_on[q]
            rebuilt == restore_ajdc(r)
        IN /\ DOMAIN r = RecordFields
           /\ r.sfreq = f.sfreq
           /\ r.window = f.ajdc.window
           /\ r.n_channel = f.ajdc.n_channels_
           /\ r.n_source = f.ajdc.n_sources_
           /\ r.fmin = f.ajdc.fmin /\ r.fmax = f.ajdc.fmax
           /\ r.overlap = f.ajdc.overlap
           /\ r.demixage = f.ajdc.forward_filters_
           /\ r.mixage = f.ajdc.backward_filters_
           /\ r.blinks_components \o r.saccades_components = f.bad_sources
           /\ rebuilt.window = f.ajdc.window
           /\ rebuilt.fs = f.ajdc.fs
           /\ rebuilt.overlap = f.ajdc.overlap
           /\ rebuilt.fmin = f.ajdc.fmin /\ rebuilt.fmax = f.ajdc.fmax

\* the fields a record does hold, and what its sfreq field is
RecordAsSaved ==
    \A q \in DOMAIN store :
        /\ DOMAIN store[q] = RecordFields \ {"window"}
        /\ store[q].n_channel = fitted_on[q].ajdc.n_channels_
        /\ store[q].n_source = fitted_on[q].ajdc.n_sources_
        /\ store[q].fmin = fitted_on[q].ajdc.fmin
        /\ store[q].fmax = fitted_on[q].ajdc.fmax
        /\ store[q].overlap = fitted_on[q].ajdc.overlap
        /\ store[q].demixage = fitted_on[q].ajdc.forward_filters_
        /\ store[q].mixage = fitted_on[q].ajdc.backward_filters_
        /\ store[q].blinks_components \o store[q].saccades_components
             = fitted_on[q].bad_sources
        /\ store[q].sfreq = fitted_on[q].ajdc.freqs_
        /\ restore_ajdc(store[q]).window = fitted_on[q].ajdc.freqs_
        /\ restore_ajdc(store[q]).fs = fitted_on[q].ajdc.freqs_

\* C16: in a call of process_calibration the decomposition is fit at most
\* once, the operator is asked at most once and the record is written at
\* most once.
C16_OncePerKey ==
    analysis = "AJDC_calibration" =>
        loc.fits <= 1 /\ loc.asked <= 1 /\ loc.saves <= 1

\* C17: a denoising run fits nothing, and the object process_denoising
\* gives to transform and inverse_transform carries the stored matrices
\* unchanged, with a dimension reduction setting that is not the one of
\* the fit.
C17_LoadingNeverRefits ==
    analysis = "AJDC_denoising" =>
        /\ loc.fits = 0
        /\ loc.ajdc # <<>> =>
              /\ CurrentParametersPath \in DOMAIN store
              /\ loc.ajdc[1].forward_filters_ = store[CurrentParametersPath].demixage
              /\ loc.ajdc[1].backward_filters_ = store[CurrentParametersPath].mixage
              /\ loc.ajdc[1].n_sources_ = store[CurrentParametersPath].n_source
              /\ loc.ajdc[1].dim_red # fitted_on[CurrentParametersPath].ajdc.dim_red

\* transform was called on an epoch with the restored object
C17_Witness ==
    /\ analysis = "AJDC_denoising"
    /\ pc = "main"
    /\ error.by = "transform"
    /\ loc.epochs # <<>>
    /\ loc.ajdc[1].forward_filters_ = store[CurrentParametersPath].demixage
    /\ loc.ajdc[1].forward_filters_.nz # {}

\* C18: the corrected signal written for a recording carries the
\* recording's annotations unmodified, in order, and its reference
\* timestamp.
C18_AnnotationsCarriedOver ==
    DenoisedRecording =>
        /\ CurrentDenoisedPath \in DOMAIN exported
        /\ exported[CurrentDenoisedPath].annotations = loc.prepared[1].annotations
        /\ exported[CurrentDenoisedPath].meas_date = loc.prepared[1].meas_date

\* C19: no step of a denoising run (the start of the run included) creates,
\* changes or deletes a parameter record.
C19_StoreReadOnlyInDenoising ==
    [][analysis' = "AJDC_denoising" => store' = store]_vars

\* a denoising run that loaded a record and failed, both records in place
C19_Witness ==
    /\ analysis = "AJDC_denoising"
    /\ pc = "main"
    /\ error # NoError
    /\ loc.params # <<>>
    /\ Cardinality(DOMAIN store) = 2

\* the parameter file of the (condition, subject) being processed
KeyInProcess ==
    <<ParametersFolder, frequencie_file, conditions[ci],
      subjects[si] \o <<ParametersSuffix>>>>

\* C20: whatever a step does while one (subject, condition, band) is being
\* calibrated, the record of every other key stays in the store with the
\* same content.
C20_OtherKeysUntouched ==
    [][\A q \in DOMAIN store :
          q # KeyInProcess => q \in DOMAIN store' /\ store'[q] = store[q]]_vars

\* the calibration of a second key has saved, or has failed, with the record
\* of the first key in the store
C20_Witness ==
    /\ analysis = "AJDC_calibration"
    /\ ci = 2
    /\ <<condition, subject>> \in called
    /\ \/ error # NoError
       \/ loc.saves > 0
    /\ \E q \in DOMAIN store : q # KeyInProcess

\* a decomposition is in memory in process_calibration, with its signal
FittedInCalibration ==
    /\ analysis = "AJDC_calibration"
    /\ loc.ajdc # <<>>
    /\ loc.signal # <<>>

\* C21: with the fitted decomposition, inverse_transform(transform(S)) with
\* no source suppressed gives back every channel of the signal S, also when
\* fewer sources than channels were retained.
C21_RoundTripReproducesSignal ==
    FittedInCalibration =>
        LET X == get_data(loc.signal[1])
            back == Correct(loc.ajdc[1], X, <<>>)
        IN /\ back.error = ""
           /\ \A c \in 1..Rows(X), t \in 0..(TestSamples - 1) :
                 DenoisedValue(back.val, c, t) = ArrayValue(X, c, t)

\* what the round trip does keep: the sources of the signal
RoundTripKeepsSources ==
    FittedInCalibration =>
        LET ajdc == loc.ajdc[1]
            X == get_data(loc.signal[1])
            back == Correct(ajdc, X, <<>>)
        IN /\ back.error = ""
           /\ \A s \in 1..ajdc.n_sources_, t \in 0..(TestSamples - 1) :
                 SumTerms({<<e, e[3] * DenoisedValue(back.val, e[2], t)>> :
                              e \in {x \in ajdc.forward_filters_.nz : x[1] = s}})
                   = SourceValue(transform(ajdc, X).val, s, t)

\* the distinct elements of a list, each at its first position
RECURSIVE Distinct(_)
Distinct(l) ==
    IF l = <<>> THEN <<>>
    ELSE LET front == SubSeq(l, 1, Len(l) - 1)
         IN IF l[Len(l)] \in Range(front) THEN Distinct(front)
            ELSE Append(Distinct(front), l[Len(l)])

\* process_calibration has saved the record and corrected (or failed to
\* correct) the calibration signal
CorrectedCalibration ==
    /\ FittedInCalibration
    /\ loc.steps = CalibrationSteps

\* C22: the correction of the calibration signal with the list blink +
\* saccade is the correction with the distinct indices of that list: both
\* fail alike or give the same values.
C22_DuplicatesSuppressOnce ==
    CorrectedCalibration =>
        LET ajdc == loc.ajdc[1]
            source == transform(ajdc, get_data(loc.signal[1]))
            record == store[CurrentParametersPath]
        IN /\ source.error = ""
           /\ loc.bad_sources = record.blinks_components \o record.saccades_components
           /\ SameOutput(inverse_transform(ajdc, source.val, loc.bad_sources),
                         inverse_transform(ajdc, source.val, Distinct(loc.bad_sources)),
                         ajdc.n_channels_)

\* an index was given twice in the blink answer and again in the saccade
\* answer, and the corrected calibration signal was written
C22_Witness ==
    /\ CorrectedCalibration
    /\ error = NoError
    /\ loc.bad_sources = <<1, 2, 1, 1, 2, 1>>
    /\ CorrectedCalibrationPath(frequencie_file, condition, subject) \in calib_files

\* number of epochs whose calls are taken in every order
TestEpochs == 3

\* the first TestEpochs epochs of a list
FirstEpochs(epochs) ==
    SubSeq(epochs, 1, IF Len(epochs) < TestEpochs THEN Len(epochs) ELSE TestEpochs)

\* the orders in which n calls may be executed
Orders(n) == {o \in SeqsNoRep(1..n, n) : Len(o) = n}

\* the calls of the epochs executed in the given order, each with the
\* restored object and the suppression list: the pairs <<epoch index,
\* result of transform then inverse_transform>> in order of completion
RECURSIVE ExecutedInOrder(_, _, _, _)
ExecutedInOrder(ajdc, epochs, bad_sources, order) ==
    IF order = <<>> THEN <<>>
    ELSE <<<<order[1], Correct(ajdc, epochs[order[1]], bad_sources)>>>>
         \o ExecutedInOrder(ajdc, epochs, bad_sources, Tail(order))

\* the results put back in order of epoch index
Reordered(done) ==
    [k \in 1..Len(done) |->
        done[CHOOSE i \in 1..Len(done) : done[i][1] = k][2]]

\* executing the calls in the given order and reordering the results gives
\* what the sequential loop gives: the same exception, or the same blocks
SameAsSequential(ajdc, epochs, bad_sources, order) ==
    LET sequential == denoise_epochs(ajdc, epochs, bad_sources, 1, <<>>)
        results == Reordered(ExecutedInOrder(ajdc, epochs, bad_sources, order))
        failed == {k \in 1..Len(results) : results[k].error # ""}
    IN IF failed = {}
       THEN /\ sequential.error = ""
            /\ sequential.val = [k \in 1..Len(results) |-> results[k].val]
       ELSE \E k \in failed : sequential.error = results[k].error

\* the signal the decomposition of the current key was fit on, cut into
\* epochs as process_denoising cuts a recording
FitSignalEpochs ==
    make_fixed_length_epochs(fitted_on[CurrentParametersPath].signal)

\* C23: with the object and the suppression list of a denoising call, the
\* per-epoch transform / inverse_transform calls give, in whatever order
\* they are executed and once reordered by epoch index, the result of the
\* sequential loop: for the epochs of the recording being denoised, and for
\* the epochs of the signal the decomposition was fit on.
C23_EpochCallsIndependent ==
    DenoisedRecording =>
        /\ \A order \in Orders(Len(FirstEpochs(loc.epochs))) :
              SameAsSequential(loc.ajdc[1], FirstEpochs(loc.epochs),
                               loc.bad_sources, order)
        /\ \A order \in Orders(Len(FirstEpochs(FitSignalEpochs))) :
              SameAsSequential(loc.ajdc[1], FirstEpochs(FitSignalEpochs),
                               loc.bad_sources, order)

\* a denoising call with several epochs and a suppressed source, in which
\* the sequential loop over the epochs of the fit signal gives blocks
C23_Witness ==
    /\ DenoisedRecording
    /\ Len(loc.epochs) >= TestEpochs
    /\ loc.bad_sources # <<>>
    /\ LET sequential == denoise_epochs(loc.ajdc[1], FirstEpochs(FitSignalEpochs),
                                        loc.bad_sources, 1, <<>>)
       IN sequential.error = "" /\ Len(sequential.val) = TestEpochs

\* no element occurs twice in the list
NoRepetition(l) == \A i, j \in 1..Len(l) : l[i] = l[j] => i = j

\* C24: in every record of the store the blink list and the saccade list
\* hold each index once.
C24_StoredListsAreSets ==
    \A q \in DOMAIN store :
        /\ NoRepetition(store[q].blinks_components)
        /\ NoRepetition(store[q].saccades_components)

\* the directory of the processed subject holds a calibration file
HasCalibrationFile ==
    /\ raw_data # <<>>
    /\ \E i \in 1..Len(raw_data[1]) : Contains(CalibrationMark, raw_data[1][i].name)

\* the recording of the calibration file, as it is on disk
CalibrationRecording ==
    CHOOSE r \in UNION {raw_data[1][i].raw :
                           i \in {j \in 1..Len(raw_data[1]) :
                                     Contains(CalibrationMark, raw_data[1][j].name)}} :
        TRUE

\* positions of the annotations of a recording whose label contains ' 16'
Positions16(r) ==
    {i \in 1..Len(r.annotations) :
        \E j \in 1..(Len(r.annotations[i].description) - 2) :
            SubSeq(r.annotations[i].description, j, j + 2) = <<" ", "1", "6">>}

\* the files process_calibration writes for a key, the record apart
CalibrationOutputs(c, s) ==
    {CalibrationDataPath(frequencie_file, c, s), SourcesPath(frequencie_file, c, s),
     CorrectedCalibrationPath(frequencie_file, c, s), ReportPath(frequencie_file, c, s)}

\* C25: in a _HAND_OBSERVATION_ calibration the signal that is fit is the
\* range [onset + 5 s, onset + 25 s] of the recording, onset being that of
\* its last annotation with ' 16' in the label; with no such annotation the
\* call fails at the crop, with nothing fit, asked, written or saved.
C25_WindowOfLastMarker16 ==
    (/\ analysis = "AJDC_calibration"
     /\ condition = "_HAND_OBSERVATION_"
     /\ <<condition, subject>> \in called
     /\ HasCalibrationFile) =>
        LET r == CalibrationRecording
            last == CHOOSE i \in Positions16(r) : \A j \in Positions16(r) : j <= i
        IN /\ loc.signal # <<>> =>
                /\ Positions16(r) # {}
                /\ loc.signal[1].first_samp
                      = r.annotations[last].onset + 5 * r.sfreq
                /\ loc.signal[1].n_times = 20 * r.sfreq + 1
                /\ loc.signal[1].sfreq = r.sfreq
           /\ (Positions16(r) = {} /\ Contains(CalibrationMark, loc.file)) =>
                /\ pc = "main"
                /\ error = [type |-> "UnboundLocalError",
                            by |-> "crop_calibration_signal_BetaPark"]
                /\ loc.fits = 0 /\ loc.asked = 0 /\ loc.saves = 0
                /\ CurrentParametersPath \notin DOMAIN store
                /\ CalibrationOutputs(condition, subject) \cap calib_files = {}

\* the recording has two ' 16' annotations and the decomposition was fit on
\* the window of the second
C25_Witness ==
    /\ analysis = "AJDC_calibration"
    /\ condition = "_HAND_OBSERVATION_"
    /\ HasCalibrationFile
    /\ Cardinality(Positions16(CalibrationRecording)) = 2
    /\ loc.fits = 1
    /\ loc.signal # <<>>
    /\ loc.signal[1].first_samp = 3750

\* a calibration file without ' 16' annotation has stopped the call
NoMarkerCalibrationFails ==
    /\ analysis = "AJDC_calibration"
    /\ HasCalibrationFile
    /\ Positions16(CalibrationRecording) = {}
    /\ error.type = "UnboundLocalError"

\* sub-Pilote2, sub-S001, sub-S009, sub-S010
SkippedNames ==
    { <<"s", "u", "b", "-", "P", "i", "l", "o", "t", "e", "2">>,
      <<"s", "u", "b", "-", "S", "0", "0", "1">>,
      <<"s", "u", "b", "-", "S", "0", "0", "9">>,
      <<"s", "u", "b", "-", "S", "0", "1", "0">> }

\* the (condition, subject) pairs of the batch that are not skipped
PairsToProcess ==
    {<<c, s>> : c \in Range(conditions), s \in Range(sub_list) \ SkippedNames}

\* position of a pair in the order of the loops: conditions outside,
\* subjects in list order
LoopRank(i, j) == (i - 1) * Len(sub_list) + j

\* only pairs that are not skipped are called, in loop order with none left
\* out before the current position, and all of them (21 of the 25 subjects
\* for each condition) when the loops have run to their end
BatchCoverage ==
    /\ Len(sub_list) = 25
    /\ SkippedNames = {s \in Range(sub_list) : extract_number(s) \in {0, 1, 9, 10}}
    /\ called \subseteq PairsToProcess
    /\ run > 0 =>
          \A i \in 1..Len(conditions), j \in 1..Len(sub_list) :
              /\ LoopRank(i, j) < LoopRank(ci, si) =>
                    (<<conditions[i], sub_list[j]>> \in called
                        <=> sub_list[j] \notin SkippedNames)
              /\ LoopRank(i, j) > LoopRank(ci, si) =>
                    <<conditions[i], sub_list[j]>> \notin called
    /\ (pc = "main" /\ run > 0 /\ error = NoError) =>
          /\ called = PairsToProcess
          /\ \A c \in Range(conditions) :
                Cardinality({p \in called : p[1] = c}) = 21

\* a call is made for the pair of the loops' position, once
BatchCallsOnce ==
    [][(pc = "loop" /\ called' # called) =>
          /\ <<conditions[ci], sub_list[si]>> \notin called
          /\ called' = called \cup {<<conditions[ci], sub_list[si]>>}]_vars

CalibrationCalled == analysis = "AJDC_calibration" /\ called # {}

\* C27: whatever the configured band fmin_ajdc < fmax_ajdc, the fmin and
\* fmax process_calibration reads back from the identifier and gives to
\* the fit are the configured ones.
C27_BandReadBack ==
    CalibrationCalled =>
        /\ loc.fmin_ajdc < loc.fmax_ajdc
        /\ error.by # "int"
        /\ loc.fit_band = <<loc.fmin_ajdc, loc.fmax_ajdc>>

\* the bands for which the read-back is right: one digit, then two digits
BandReadBackOneTwoDigits ==
    (CalibrationCalled /\ loc.fmin_ajdc < 10
        /\ 10 <= loc.fmax_ajdc /\ loc.fmax_ajdc < 100) =>
        /\ error.by # "int"
        /\ loc.fit_band = <<loc.fmin_ajdc, loc.fmax_ajdc>>

\* the file name a path stands for: its parts joined by "/"
Location(path) ==
    <<path[1], "/">> \o path[2] \o <<"/", path[3], "/">> \o path[4]

\* the keys (band, condition, subject) of the configurable bands and of
\* the lists of setup_betapark
Keys ==
    {<<BandIdentifier(b[1], b[2]), c, s>> :
        b \in Bands, c \in Range(conditions), s \in Range(sub_list)}

\* the location written and the location read are the same for a key, and
\* differ from those of every other key
LocationsOfKeys ==
    \A k \in Keys :
        /\ Location(ParametersPathSaved(k[1], k[2], k[3]))
             = Location(ParametersPathLoaded(k[1], k[2], k[3]))
        /\ \A other \in Keys \ {k} :
             Location(ParametersPathSaved(k[1], k[2], k[3]))
                # Location(ParametersPathSaved(other[1], other[2], other[3]))

\* every record of the store lies at the location of its own key
RecordsAtOwnLocation ==
    \A q \in DOMAIN store :
        q = ParametersPathSaved(store[q].band, store[q].condition, store[q].subject)

\* a call of process_denoising for a key whose record was written finds a
\* record, and it is the record of that key
ReadsRecordOfKey ==
    (pc = "loop" /\ analysis = "AJDC_denoising" /\ called' # called) =>
        LET written == ParametersPathSaved(loc.frequencie_file, conditions[ci],
                                           sub_list[si])
        IN written \in DOMAIN store =>
              /\ error'.by # "np.load"
              /\ loc'.params = <<store[written]>>
              /\ loc'.params[1].condition = conditions[ci]
              /\ loc'.params[1].subject = sub_list[si]
              /\ loc'.params[1].band = loc.frequencie_file

\* C28: the parameter file process_calibration writes for a key (subject,
\* condition, band) is the file process_denoising loads for that key, and
\* different keys have different files.
C28_SameLocationPerKey ==
    /\ [][ReadsRecordOfKey]_vars
    /\ [](RecordsAtOwnLocation /\ LocationsOfKeys)

\* denoising has loaded, for a key of the second condition, the record
\* calibration wrote for it, every pair having its own record
C28_Witness ==
    /\ analysis = "AJDC_denoising"
    /\ loc.params # <<>>
    /\ loc.params[1].condition = conditions[2]
    /\ Cardinality(DOMAIN store) = 42

\* the name holds '2-1.vhdr'
Named21Vhdr(name) ==
    \E i \in 1..(Len(name) - 7) :
        SubSeq(name, i, i + 7) = <<"2", "-", "1", ".", "v", "h", "d", "r">>

\* the directory of the processed subject exists and no file of it is a
\* calibration file
NoCalibrationFile ==
    /\ raw_data # <<>>
    /\ \A i \in 1..Len(raw_data[1]) : ~Named21Vhdr(raw_data[1][i].name)

\* C29: with no file named '...2-1.vhdr' in the subject's directory,
\* process_calibration fits nothing, asks nothing, reads no recording,
\* writes no file and no record and raises nothing, the driver going on to
\* the end of the batch; process_denoising for the key then fails at the
\* load of the missing record.
C29_NoCalibrationFileNoRecord ==
    NoCalibrationFile =>
        /\ store = <<>>
        /\ calib_files = {}
        /\ analysis = "AJDC_calibration" =>
              /\ error = NoError
              /\ loc.fits = 0 /\ loc.asked = 0 /\ loc.saves = 0
              /\ loc.signal = <<>> /\ loc.ajdc = <<>>
              /\ \A e \in io : e.op = "listdir"
              /\ (pc = "main" /\ run > 0) =>
                    called = {<<c, sub_list[7]>> : c \in Range(conditions)}
        /\ (analysis = "AJDC_denoising" /\ <<condition, subject>> \in called) =>
              \/ pc = "den_load"
              \/ pc = "main"
                    /\ error = [type |-> "FileNotFoundError", by |-> "np.load"]

\* a calibration run went through a directory of two files, none of them a
\* calibration file, for both conditions
C29_Witness ==
    /\ NoCalibrationFile
    /\ Len(raw_data[1]) = 2
    /\ analysis = "AJDC_calibration"
    /\ pc = "main"
    /\ run > 0
    /\ Cardinality(called) = 2
    /\ {e.op : e \in io} = {"listdir"}

\* the denoising run that follows such a calibration run has failed
DenoisingAfterNoCalibrationFile ==
    /\ NoCalibrationFile
    /\ analysis = "AJDC_denoising"
    /\ run = 2
    /\ error.type = "FileNotFoundError"

\* the names of the directory that contain '.vhdr'
VhdrFiles ==
    {raw_data[1][i].name : i \in {j \in 1..Len(raw_data[1]) :
        \E k \in 1..(Len(raw_data[1][j].name) - 4) :
            SubSeq(raw_data[1][j].name, k, k + 4) = <<".", "v", "h", "d", "r">>}}

\* <name up to the first dot>_denoised.vhdr under the location of the key
OutputOf(c, s, name) ==
    <<"_DENOISING_EEG_", frequencie_file, c, s,
      SubSeq(name, 1, (CHOOSE k \in 1..Len(name) :
                          name[k] = "." /\ \A j \in 1..(k - 1) : name[j] # ".") - 1)
        \o <<"_denoised.vhdr">>>>

\* C30: when a denoising run is over, every (condition, subject) key for
\* which process_denoising was called with a record in the store has one
\* corrected signal for each '.vhdr' file of the subject's directory, at
\* <name up to the first dot>_denoised.vhdr under the key's location, and
\* no other output.
C30_OneOutputPerVhdrFile ==
    (analysis = "AJDC_denoising" /\ pc = "main" /\ run > 0 /\ raw_data # <<>>) =>
        \A p \in called :
            ParametersPathLoaded(frequencie_file, p[1], p[2]) \in DOMAIN store =>
                {q \in DOMAIN exported : q[3] = p[1] /\ q[4] = p[2]}
                    = {OutputOf(p[1], p[2], name) : name \in VhdrFiles}

====
